---- MODULE Spec2Model ----
(***************************************************************************)
(* Remedy UX assembly: the frontend rules engine buildFinalUI              *)
(* (lib/buildFinalUI.ts), the chat route that feeds it                     *)
(* (app/api/chat/route.ts) and the Chat component that drives the route    *)
(* (components/Chat.tsx).                                                  *)
(*                                                                         *)
(* An optional field of the TypeScript input is a record with a `present`  *)
(* flag; a present field carries the sub-fields of the interface.          *)
(***************************************************************************)
EXTENDS Integers, Sequences, FiniteSets, TLC

VARIABLES response, clarifyingCount, result, pc,
          messages, inputDisabled, isLoading, requests,
          scenario, tested, evaluation

vars == <<response, clarifyingCount, result, pc, messages, inputDisabled, isLoading, requests,
          scenario, tested, evaluation>>

engineVars == <<response, clarifyingCount, result, pc>>
chatVars == <<messages, inputDisabled, isLoading, requests>>
evalVars == <<scenario, tested, evaluation>>

(***************************************************************************)
(* Bounds of the model.                                                    *)
(***************************************************************************)
MaxItems == 7
MaxSources == 6
MaxCount == 3
MaxTurns == 4
MaxHistory == 4
MaxPending == 2
MaxShown == 6

(***************************************************************************)
(* Program constants.                                                      *)
(***************************************************************************)
ClarifyingLimit == 2
ChecklistMax == 5
ChecklistMin == 2
SourcesMax == 4
SourcesMin == 1

TriageIntent == "Triage (Urgent)"

(***************************************************************************)
(* Input types (interfaces of buildFinalUI.ts).                            *)
(***************************************************************************)
Absent == [present |-> FALSE]

Modes == {"informational", "clarification", "emergency"}

RiskLevels == {"low", "medium", "high"}

AlertLevels == {"informational", "caution", "emergency"}

Intents == {TriageIntent, "Explain"}

IntentDetection == [primary_intent : Intents, risk_level : RiskLevels]

UXMode == [mode : Modes]

SummaryContent == {Absent} \cup [present : {TRUE}, value : {"", "Rest and drink fluids."}]

SafetyAlertContent == {Absent} \cup [present : {TRUE}, level : AlertLevels]

ClarifyingQuestionContent == {Absent} \cup [present : {TRUE}, allows_exit : BOOLEAN]

ItemsUpTo(n) == {[i \in 1..k |-> i] : k \in 0..n}

ChecklistContent == {Absent} \cup [present : {TRUE}, heading : {"Next steps"}, items : ItemsUpTo(MaxItems)]

CTAContent == {Absent} \cup [present : {TRUE}, primary : {"Call emergency services"}, secondary : {Absent, [present |-> TRUE, value |-> "Find urgent care"]}]

SourceContent == {Absent} \cup [present : {TRUE}, list : ItemsUpTo(MaxSources)]

ResponseContent == [summary : SummaryContent, safety_alert : SafetyAlertContent, clarifying_question : ClarifyingQuestionContent, checklist : ChecklistContent, cta : CTAContent, sources : SourceContent]

AIResponse == [intent_detection : IntentDetection, ux_mode : UXMode, response_content : ResponseContent]

(***************************************************************************)
(* JavaScript helpers.                                                     *)
(***************************************************************************)
\* Array.prototype.slice(0, n)
Slice(s, n) == SubSeq(s, 1, IF Len(s) < n THEN Len(s) ELSE n)

\* truthiness of an optional string: undefined and "" are falsy
TruthyStr(o) == o.present /\ o.value # ""

\* truthiness of an optional object: only undefined is falsy
Truthy(o) == o.present

Types(cs) == [i \in 1..Len(cs) |-> cs[i].type]

\* a block of the parsed JSON may lack a sub-field the interface declares
HasField(o, f) == f \in DOMAIN o

\* o.length > 0, where the length of an object that is no array is undefined
LengthPositive(srcs) == HasField(srcs, "list") /\ Len(srcs.list) > 0

HasType(cs, t) == \E i \in 1..Len(cs) : cs[i].type = t

\* Array.prototype.includes
InSeq(x, s) == \E i \in 1..Len(s) : s[i] = x

(***************************************************************************)
(* buildFinalUI: derived flags.                                            *)
(***************************************************************************)
isEmergency(resp) == resp.ux_mode.mode = "emergency"

isClarification(resp) == resp.ux_mode.mode = "clarification"

\* mutant: the triage intent is never recognised
isTriage_Never(resp) == FALSE

isTriage(resp) == resp.intent_detection.primary_intent = TriageIntent

\* mutant: the limit is reached one question late
clarifyingLimitExceeded_OffByOne(count) == count > ClarifyingLimit

clarifyingLimitExceeded(count) == count >= ClarifyingLimit

\* let hasClarifyingQuestion, after the safety-net strip
hasClarifyingQuestion(resp, count) == Truthy(resp.response_content.clarifying_question) /\ ~clarifyingLimitExceeded(count)

\* mutant: emergency mode suppresses nothing
suppressNonEssential_Off(resp) == FALSE

suppressNonEssential(resp) == isEmergency(resp)

(***************************************************************************)
(* buildFinalUI: one operator per numbered step of the stacking order.     *)
(* Each yields what the step pushes on components, appliedRules and        *)
(* blockedComponents.                                                      *)
(***************************************************************************)
Step(cs, rs, bs) == [components |-> cs, rules |-> rs, blocked |-> bs]

NoStep == Step(<<>>, <<>>, <<>>)

\* mutant: the strip records the blocked question itself
StripStep_AlsoBlocks(resp, count) ==
    IF Truthy(resp.response_content.clarifying_question) /\ clarifyingLimitExceeded(count)
    THEN Step(<<>>, <<"Clarifying question stripped: limit exceeded (2/2)">>, <<"clarifying_question">>)
    ELSE NoStep

StripStep(resp, count) ==
    IF Truthy(resp.response_content.clarifying_question) /\ clarifyingLimitExceeded(count)
    THEN Step(<<>>, <<"Clarifying question stripped: limit exceeded (2/2)">>, <<>>)
    ELSE NoStep

EmergencyStep(resp) ==
    IF suppressNonEssential(resp)
    THEN Step(<<>>, <<"Emergency mode: suppressing non-essential UI">>, <<>>)
    ELSE NoStep

TopAlertStep(resp) ==
    LET alert == resp.response_content.safety_alert IN
    IF Truthy(alert) /\ alert.level \in {"caution", "emergency"}
    THEN Step(<<[type |-> "safety_alert", content |-> alert]>>,
              <<"Safety alert (" \o alert.level \o ") placed at top">>, <<>>)
    ELSE NoStep

SummaryStep(resp) ==
    LET summary == resp.response_content.summary IN
    IF TruthyStr(summary) /\ ~isEmergency(resp)
    THEN Step(<<[type |-> "summary", content |-> summary.value]>>, <<>>, <<>>)
    ELSE IF TruthyStr(summary) /\ isEmergency(resp)
    THEN Step(<<>>, <<"Summary blocked: emergency mode">>, <<"summary">>)
    ELSE NoStep

InfoAlertStep(resp) ==
    LET alert == resp.response_content.safety_alert IN
    IF Truthy(alert) /\ alert.level = "informational"
    THEN Step(<<[type |-> "safety_alert", content |-> alert]>>,
              <<"Informational alert placed below summary">>, <<>>)
    ELSE NoStep

\* mutant: a question dropped by the limit is not recorded as blocked
ClarifyingStep_LimitNotBlocked(resp, count) ==
    LET cq == resp.response_content.clarifying_question IN
    IF hasClarifyingQuestion(resp, count) /\ ~suppressNonEssential(resp)
    THEN Step(<<[type |-> "clarifying_question", content |-> cq]>>,
              <<"Clarifying question included">>, <<>>)
    ELSE IF Truthy(cq) /\ suppressNonEssential(resp)
    THEN Step(<<>>, <<"Clarifying question suppressed (emergency mode)">>, <<"clarifying_question">>)
    ELSE NoStep

ClarifyingStep(resp, count) ==
    LET cq == resp.response_content.clarifying_question IN
    IF hasClarifyingQuestion(resp, count) /\ ~suppressNonEssential(resp)
    THEN Step(<<[type |-> "clarifying_question", content |-> cq]>>,
              <<"Clarifying question included">>, <<>>)
    ELSE IF Truthy(cq) /\ suppressNonEssential(resp)
    THEN Step(<<>>, <<"Clarifying question suppressed (emergency mode)">>, <<"clarifying_question">>)
    ELSE IF Truthy(cq) /\ clarifyingLimitExceeded(count)
    THEN Step(<<>>, <<>>, <<"clarifying_question">>)
    ELSE NoStep

\* mutant: the checklist is not truncated
ChecklistItems_NoCap(checklist) == checklist.items

ChecklistItems(checklist) == Slice(checklist.items, ChecklistMax)

ChecklistStep(resp, count) ==
    LET checklist == resp.response_content.checklist IN
    IF Truthy(checklist) /\ ~suppressNonEssential(resp) /\ ~hasClarifyingQuestion(resp, count)
    THEN LET items == ChecklistItems(checklist) IN
         IF Len(items) >= ChecklistMin
         THEN Step(<<[type |-> "checklist", content |-> [heading |-> checklist.heading, items |-> items]]>>,
                   <<"Checklist included (" \o ToString(Len(items)) \o " items)">>, <<>>)
         ELSE NoStep
    ELSE IF Truthy(checklist) /\ suppressNonEssential(resp)
    THEN Step(<<>>, <<"Checklist suppressed (emergency mode)">>, <<"checklist">>)
    ELSE IF Truthy(checklist) /\ hasClarifyingQuestion(resp, count)
    THEN Step(<<>>, <<"Checklist blocked: clarifying question present">>, <<"checklist">>)
    ELSE NoStep

\* mutant: a clarifying question does not block the cta
CTABlocked_Never(resp, count) == FALSE

CTABlocked(resp, count) == hasClarifyingQuestion(resp, count)

CTAStep(resp, count) ==
    LET cta == resp.response_content.cta IN
    IF ~Truthy(cta) THEN NoStep
    ELSE IF CTABlocked(resp, count)
    THEN Step(<<>>, <<"CTA blocked: clarifying question present">>, <<"cta">>)
    ELSE IF isEmergency(resp)
    THEN Step(<<[type |-> "cta", content |-> [primary |-> cta.primary]]>>,
              <<"CTA included: emergency mode (primary only)">>, <<>>)
    ELSE IF TruthyStr(cta.secondary) /\ ~isTriage(resp)
    THEN Step(<<[type |-> "cta", content |-> [primary |-> cta.primary, secondary |-> cta.secondary.value]]>>,
              <<"CTA included with secondary action">>, <<>>)
    ELSE IF TruthyStr(cta.secondary) /\ isTriage(resp)
    THEN Step(<<[type |-> "cta", content |-> [primary |-> cta.primary]]>>,
              <<"Secondary CTA blocked: triage mode">>, <<>>)
    ELSE Step(<<[type |-> "cta", content |-> [primary |-> cta.primary]]>>,
              <<"CTA included (primary only)">>, <<>>)

\* mutant: the sources are not truncated
SourcesList_NoCap(srcs) == srcs.list

SourcesList(srcs) == Slice(srcs.list, SourcesMax)

SourcesStep(resp, count) ==
    LET srcs == resp.response_content.sources IN
    IF Truthy(srcs) /\ LengthPositive(srcs) /\ ~suppressNonEssential(resp) /\ ~hasClarifyingQuestion(resp, count)
    THEN LET sources == SourcesList(srcs) IN
         IF Len(sources) >= SourcesMin
         THEN Step(<<[type |-> "sources", content |-> sources]>>,
                   <<"Sources included (" \o ToString(Len(sources)) \o ")">>, <<>>)
         ELSE NoStep
    ELSE IF Truthy(srcs) /\ suppressNonEssential(resp)
    THEN Step(<<>>, <<"Sources suppressed (emergency mode)">>, <<"sources">>)
    ELSE IF Truthy(srcs) /\ hasClarifyingQuestion(resp, count)
    THEN Step(<<>>, <<"Sources blocked: clarifying question present">>, <<"sources">>)
    ELSE NoStep

\* mutant: the summary is placed before the top alert
Steps_SummaryFirst(resp, count) ==
    << StripStep(resp, count), EmergencyStep(resp), SummaryStep(resp), TopAlertStep(resp),
       InfoAlertStep(resp), ClarifyingStep(resp, count), ChecklistStep(resp, count),
       CTAStep(resp, count), SourcesStep(resp, count) >>

\* mutant: the sources are placed before the cta
Steps_SourcesBeforeCTA(resp, count) ==
    << StripStep(resp, count), EmergencyStep(resp), TopAlertStep(resp), SummaryStep(resp),
       InfoAlertStep(resp), ClarifyingStep(resp, count), ChecklistStep(resp, count),
       SourcesStep(resp, count), CTAStep(resp, count) >>

\* mutant: the informational alert is placed before the summary
Steps_InfoAlertBeforeSummary(resp, count) ==
    << StripStep(resp, count), EmergencyStep(resp), TopAlertStep(resp), InfoAlertStep(resp),
       SummaryStep(resp), ClarifyingStep(resp, count), ChecklistStep(resp, count),
       CTAStep(resp, count), SourcesStep(resp, count) >>

\* the steps in the order the function runs them
Steps(resp, count) ==
    << StripStep(resp, count), EmergencyStep(resp), TopAlertStep(resp), SummaryStep(resp),
       InfoAlertStep(resp), ClarifyingStep(resp, count), ChecklistStep(resp, count),
       CTAStep(resp, count), SourcesStep(resp, count) >>

RECURSIVE Concat(_, _)
Concat(steps, field) ==
    IF steps = <<>> THEN <<>>
    ELSE Head(steps)[field] \o Concat(Tail(steps), field)

\* mutant: allowed_components also lists what was blocked
Guardrails_AllowedWithBlocked(resp, count, components, blockedComponents, appliedRules) ==
    [ triage_required |-> isTriage(resp),
      free_text_allowed |-> ~hasClarifyingQuestion(resp, count),
      follow_up_questions_allowed |-> ~isEmergency(resp),
      escalation_required |-> isEmergency(resp) \/ resp.intent_detection.risk_level = "high",
      allowed_components |-> Types(components) \o blockedComponents,
      blocked_components |-> blockedComponents,
      applied_rules |-> appliedRules ]

Guardrails(resp, count, components, blockedComponents, appliedRules) ==
    [ triage_required |-> isTriage(resp),
      free_text_allowed |-> ~hasClarifyingQuestion(resp, count),
      follow_up_questions_allowed |-> ~isEmergency(resp),
      escalation_required |-> isEmergency(resp) \/ resp.intent_detection.risk_level = "high",
      allowed_components |-> Types(components),
      blocked_components |-> blockedComponents,
      applied_rules |-> appliedRules ]

\* mutant: waiting_for_structured_input ignores emergency suppression
ExitState_IgnoresSuppression(resp, count) ==
    LET cq == resp.response_content.clarifying_question IN
    [ waiting_for_structured_input |-> hasClarifyingQuestion(resp, count),
      returns_to_free_text |-> ~hasClarifyingQuestion(resp, count)
                               \/ (hasClarifyingQuestion(resp, count) /\ cq.allows_exit) ]

ExitState(resp, count) ==
    LET cq == resp.response_content.clarifying_question IN
    [ waiting_for_structured_input |-> hasClarifyingQuestion(resp, count) /\ ~suppressNonEssential(resp),
      returns_to_free_text |-> ~hasClarifyingQuestion(resp, count)
                               \/ (hasClarifyingQuestion(resp, count) /\ cq.allows_exit) ]

\* response_content.checklist.items.slice raises a TypeError when the
\* checklist branch is entered and the checklist has no items
Throws(resp, count) ==
    LET checklist == resp.response_content.checklist IN
    /\ Truthy(checklist) /\ ~suppressNonEssential(resp) /\ ~hasClarifyingQuestion(resp, count)
    /\ ~HasField(checklist, "items")

buildFinalUI(resp, count) ==
    LET steps == Steps(resp, count)
        components == Concat(steps, "components")
    IN  [ final_ui |-> [components |-> components],
          guardrails |-> Guardrails(resp, count, components, Concat(steps, "blocked"), Concat(steps, "rules")),
          exit_state |-> ExitState(resp, count) ]

(***************************************************************************)
(* The engine as a state machine: one call of buildFinalUI on an input     *)
(* drawn from the input types.                                             *)
(***************************************************************************)
NoResult == [final_ui |-> [components |-> <<>>]]

\* the engine's variables while the Chat specification runs
IdleResponse ==
    [ intent_detection |-> [primary_intent |-> "Explain", risk_level |-> "low"],
      ux_mode |-> [mode |-> "informational"],
      response_content |-> [summary |-> Absent, safety_alert |-> Absent, clarifying_question |-> Absent,
                            checklist |-> Absent, cta |-> Absent, sources |-> Absent] ]

InitChat ==
    /\ messages = <<>>
    /\ inputDisabled = FALSE
    /\ isLoading = FALSE
    /\ requests = {}

\* the evaluator's variables while no test is evaluated
NoScenario == [id |-> 0]

NoEvaluation == [overall |-> "pending"]

IdleEval ==
    /\ scenario = NoScenario
    /\ tested = Absent
    /\ evaluation = NoEvaluation

Init ==
    /\ response \in AIResponse
    /\ clarifyingCount \in 0..MaxCount
    /\ result = NoResult
    /\ pc = "call"
    /\ InitChat
    /\ IdleEval

Build ==
    /\ pc = "call"
    /\ IF Throws(response, clarifyingCount)
       THEN /\ result' = NoResult
            /\ pc' = "threw"
       ELSE /\ result' = buildFinalUI(response, clarifyingCount)
            /\ pc' = "done"
    /\ UNCHANGED <<response, clarifyingCount>>
    /\ UNCHANGED chatVars
    /\ UNCHANGED evalVars

Next == Build

Spec == Init /\ [][Next]_vars

\* the same call on parsed JSON whose blocks need not have the declared shape
LooseContent ==
    [ summary : {Absent}, safety_alert : {Absent},
      clarifying_question : {Absent, [present |-> TRUE, allows_exit |-> TRUE]},
      checklist : {Absent, [present |-> TRUE, heading |-> "Next steps", items |-> <<1, 2>>],
                   [present |-> TRUE, heading |-> "Next steps"]},
      cta : {Absent, [present |-> TRUE, primary |-> "Call emergency services", secondary |-> Absent]},
      sources : {Absent, [present |-> TRUE, list |-> <<1, 2>>], [present |-> TRUE]} ]

LooseResponses ==
    [ intent_detection : {[primary_intent |-> "Explain", risk_level |-> "low"]},
      ux_mode : UXMode, response_content : LooseContent ]

InitLoose ==
    /\ response \in LooseResponses
    /\ clarifyingCount \in 0..MaxCount
    /\ result = NoResult
    /\ pc = "call"
    /\ InitChat
    /\ IdleEval

SpecLoose == InitLoose /\ [][Next]_vars

\* the values the claims speak about
done == pc = "done"

components == result.final_ui.components

content == response.response_content

(***************************************************************************)
(* The chat route (POST /api/chat).                                        *)
(***************************************************************************)
\* mutant: the scan does not stop at an assistant message outside clarification
countConsecutiveClarifyingQuestions_NoBreak(msgs) ==
    Cardinality({ i \in 1..Len(msgs) :
                    /\ msgs[i].role = "assistant"
                    /\ msgs[i].structured.present
                    /\ msgs[i].structured.ux_mode.mode = "clarification" })

RECURSIVE countConsecutiveClarifyingQuestions(_)
countConsecutiveClarifyingQuestions(msgs) ==
    IF msgs = <<>> THEN 0
    ELSE LET msg == msgs[Len(msgs)]
             rest == SubSeq(msgs, 1, Len(msgs) - 1)
         IN  IF msg.role = "assistant"
             THEN IF msg.structured.present /\ msg.structured.ux_mode.mode = "clarification"
                  THEN 1 + countConsecutiveClarifyingQuestions(rest)
                  ELSE 0
             ELSE countConsecutiveClarifyingQuestions(rest)

\* what the model may answer on a turn: nothing parseable, or an AIResponse
ChatContent == [summary : {Absent}, safety_alert : {Absent},
                clarifying_question : {Absent, [present |-> TRUE, allows_exit |-> TRUE]},
                checklist : {Absent},
                cta : {Absent, [present |-> TRUE, primary |-> "Call emergency services", secondary |-> Absent]},
                sources : {Absent}]

ModelOutputs == {Absent} \cup [present : {TRUE},
                               value : [intent_detection : {[primary_intent |-> "Explain", risk_level |-> "low"]},
                                        ux_mode : UXMode, response_content : ChatContent]]

ClarifyingContext(parsed, count) ==
    [ count |-> count + (IF parsed.ux_mode.mode = "clarification" THEN 1 ELSE 0),
      max |-> ClarifyingLimit,
      exhausted |-> count >= ClarifyingLimit ]

\* the JSON body of the route's answer to { messages, isNewConversation }
POST(msgs, isNewConversation, raw) ==
    LET count == IF isNewConversation THEN 0 ELSE countConsecutiveClarifyingQuestions(msgs)
    IN  IF raw.present
        THEN LET parsed == raw.value
                 buildResult == buildFinalUI(parsed, count)
             IN  [ success |-> TRUE,
                   structured |-> [ present |-> TRUE,
                                    intent_detection |-> parsed.intent_detection,
                                    ux_mode |-> parsed.ux_mode,
                                    response_content |-> parsed.response_content,
                                    final_ui |-> buildResult.final_ui,
                                    guardrails |-> buildResult.guardrails,
                                    exit_state |-> buildResult.exit_state,
                                    clarifying_context |-> ClarifyingContext(parsed, count) ] ]
        ELSE [ success |-> FALSE, structured |-> Absent ]

(***************************************************************************)
(* One request to the route: any history, either flag, any model output.   *)
(***************************************************************************)
HistoryMessages ==
    { [role |-> "user", structured |-> Absent], [role |-> "assistant", structured |-> Absent] }
    \cup { [role |-> "assistant", structured |-> [present |-> TRUE, ux_mode |-> m]] : m \in UXMode }

Histories == UNION { [1..n -> HistoryMessages] : n \in 0..MaxHistory }

ChatRequest == [messages : Histories, isNewConversation : BOOLEAN]

InitRoute ==
    /\ requests \in { {req} : req \in ChatRequest }
    /\ response = IdleResponse
    /\ clarifyingCount = 0
    /\ result = NoResult
    /\ pc = "request"
    /\ messages = <<>>
    /\ inputDisabled = FALSE
    /\ isLoading = TRUE
    /\ IdleEval

\* the route answers the request; clarifyingCount is the route's local of that name
Answer ==
    /\ pc = "request"
    /\ \E req \in requests, raw \in ModelOutputs :
          /\ clarifyingCount' = (IF req.isNewConversation THEN 0
                                 ELSE countConsecutiveClarifyingQuestions(req.messages))
          /\ result' = POST(req.messages, req.isNewConversation, raw)
    /\ pc' = "answered"
    /\ UNCHANGED <<response, requests>>
    /\ UNCHANGED <<messages, inputDisabled, isLoading>>
    /\ UNCHANGED evalVars

NextRoute == Answer

SpecRoute == InitRoute /\ [][NextRoute]_vars

(***************************************************************************)
(* The Chat component: each handler with the round trip to the route.      *)
(***************************************************************************)
UserMessage == [role |-> "user", structured |-> Absent]

AssistantMessage(data) ==
    [role |-> "assistant", structured |-> IF data.success THEN data.structured ELSE Absent]

\* the history as the handlers format it for the request body
FormatMessages(msgs) ==
    [i \in 1..Len(msgs) |->
        [role |-> msgs[i].role,
         structured |-> IF msgs[i].structured.present
                        THEN [present |-> TRUE, ux_mode |-> msgs[i].structured.ux_mode]
                        ELSE Absent]]

Waiting(data) == data.success /\ data.structured.exit_state.waiting_for_structured_input

\* a rendered assistant message offers the options of its clarifying question
OptionsRendered ==
    \E i \in 1..Len(messages) :
        /\ messages[i].structured.present
        /\ HasType(messages[i].structured.final_ui.components, "clarifying_question")

InitChatSpec ==
    /\ response = IdleResponse
    /\ clarifyingCount = 0
    /\ result = NoResult
    /\ pc = "chat"
    /\ InitChat
    /\ IdleEval

handleSubmit ==
    /\ ~inputDisabled
    /\ Len(messages) < 2 * MaxTurns
    /\ \E raw \in ModelOutputs :
          LET newMessages == Append(messages, UserMessage)
              data == POST(FormatMessages(newMessages), TRUE, raw)
          IN  /\ messages' = Append(newMessages, AssistantMessage(data))
              /\ inputDisabled' = IF Waiting(data) THEN TRUE ELSE inputDisabled
    /\ UNCHANGED <<isLoading, requests>>
    /\ UNCHANGED engineVars
    /\ UNCHANGED evalVars

handleOptionSelect ==
    /\ OptionsRendered
    /\ Len(messages) < 2 * MaxTurns
    /\ \E raw \in ModelOutputs :
          LET newMessages == Append(messages, UserMessage)
              data == POST(FormatMessages(newMessages), FALSE, raw)
          IN  /\ messages' = Append(newMessages, AssistantMessage(data))
              /\ inputDisabled' = Waiting(data)
    /\ UNCHANGED <<isLoading, requests>>
    /\ UNCHANGED engineVars
    /\ UNCHANGED evalVars

handleSelectTest ==
    /\ messages = <<>>
    /\ \E raw \in ModelOutputs :
          LET newMessages == Append(messages, UserMessage)
              data == POST(FormatMessages(newMessages), TRUE, raw)
          IN  /\ messages' = Append(newMessages, AssistantMessage(data))
              /\ inputDisabled' = IF Waiting(data) THEN TRUE ELSE inputDisabled
    /\ UNCHANGED <<isLoading, requests>>
    /\ UNCHANGED engineVars
    /\ UNCHANGED evalVars

handleResetChat ==
    /\ messages # <<>>
    /\ messages' = <<>>
    /\ inputDisabled' = FALSE
    /\ UNCHANGED <<isLoading, requests>>
    /\ UNCHANGED engineVars
    /\ UNCHANGED evalVars

NextChat == handleOptionSelect \/ handleSubmit \/ handleSelectTest \/ handleResetChat

SpecChat == InitChatSpec /\ [][NextChat]_vars

(***************************************************************************)
(* The Chat component with the request in flight: a handler returns at its *)
(* await (or arms its timer), and the rest of it runs when the route       *)
(* answers (or the timer fires).  A pending entry keeps what the closure   *)
(* captured: newMessages, the flag of the request and the handler.         *)
(***************************************************************************)
FreeId == CHOOSE i \in 1..MaxPending : \A r \in requests : r.id # i

Pending(handler, stage, newMessages, isNewConversation) ==
    [ id |-> FreeId, handler |-> handler, stage |-> stage,
      newMessages |-> newMessages, isNewConversation |-> isNewConversation ]

CanStart == Cardinality(requests) < MaxPending /\ Len(messages) < MaxShown

\* what the model answers while requests overlap: nothing parseable, a plain
\* answer, or a clarifying question
AsyncOutputs ==
    { raw \in ModelOutputs :
        \/ ~raw.present
        \/ /\ raw.value.ux_mode.mode = "informational"
           /\ ~raw.value.response_content.clarifying_question.present
           /\ ~raw.value.response_content.cta.present
        \/ /\ raw.value.ux_mode.mode = "clarification"
           /\ raw.value.response_content.clarifying_question.present
           /\ ~raw.value.response_content.cta.present }

\* handleSubmit up to the await of fetch
SubmitStart ==
    /\ ~isLoading /\ ~inputDisabled
    /\ CanStart
    /\ messages' = Append(messages, UserMessage)
    /\ isLoading' = TRUE
    /\ requests' = requests \cup {Pending("handleSubmit", "fetch", Append(messages, UserMessage), TRUE)}
    /\ UNCHANGED inputDisabled
    /\ UNCHANGED engineVars
    /\ UNCHANGED evalVars

\* handleOptionSelect and handleOptionSubmit up to the await of fetch
OptionStart ==
    /\ OptionsRendered
    /\ CanStart
    /\ inputDisabled' = FALSE
    /\ messages' = Append(messages, UserMessage)
    /\ isLoading' = TRUE
    /\ requests' = requests \cup {Pending("handleOptionSubmit", "fetch", Append(messages, UserMessage), FALSE)}
    /\ UNCHANGED engineVars
    /\ UNCHANGED evalVars

\* handleSelectTest: the click arms the timer
SelectTestStart ==
    /\ messages = <<>> /\ ~isLoading
    /\ CanStart
    /\ requests' = requests \cup {Pending("handleSelectTest", "timer", Append(messages, UserMessage), TRUE)}
    /\ UNCHANGED <<messages, inputDisabled, isLoading>>
    /\ UNCHANGED engineVars
    /\ UNCHANGED evalVars

\* the timer of handleSelectTest fires, up to the await of fetch
TimerFires ==
    /\ \E r \in requests :
          /\ r.stage = "timer"
          /\ messages' = r.newMessages
          /\ isLoading' = TRUE
          /\ requests' = (requests \ {r}) \cup {[r EXCEPT !.stage = "fetch"]}
    /\ UNCHANGED inputDisabled
    /\ UNCHANGED engineVars
    /\ UNCHANGED evalVars

\* the route answers a request and the handler that sent it runs to its end
Respond ==
    /\ \E r \in requests, raw \in AsyncOutputs :
          LET data == POST(FormatMessages(r.newMessages), r.isNewConversation, raw)
          IN  /\ r.stage = "fetch"
              /\ messages' = Append(r.newMessages, AssistantMessage(data))
              /\ inputDisabled' = IF r.handler = "handleOptionSubmit"
                                  THEN (IF data.success THEN Waiting(data) ELSE inputDisabled)
                                  ELSE (IF Waiting(data) THEN TRUE ELSE inputDisabled)
              /\ isLoading' = FALSE
              /\ requests' = requests \ {r}
    /\ UNCHANGED engineVars
    /\ UNCHANGED evalVars

\* handleResetChat leaves isLoading and the requests in flight alone
ResetDuringChat ==
    /\ messages # <<>>
    /\ messages' = <<>>
    /\ inputDisabled' = FALSE
    /\ UNCHANGED <<isLoading, requests>>
    /\ UNCHANGED engineVars
    /\ UNCHANGED evalVars

NextAsync == SubmitStart \/ OptionStart \/ SelectTestStart \/ TimerFires \/ Respond \/ ResetDuringChat

SpecAsync == InitChatSpec /\ [][NextAsync]_vars

(***************************************************************************)
(* The evaluator (data/testScenarios.ts).  A string the evaluator takes    *)
(* apart is a sequence of characters; Null is the JavaScript null of a     *)
(* string-valued field.                                                    *)
(***************************************************************************)
Null == "null"

Str_Explain == <<"E", "x", "p", "l", "a", "i", "n">>

Str_TriageUrgent == <<"T", "r", "i", "a", "g", "e", " ", "(", "U", "r", "g", "e", "n", "t", ")">>

Str_triage == <<"t", "r", "i", "a", "g", "e">>

Str_UrgentCare == <<"U", "r", "g", "e", "n", "t", " ", "c", "a", "r", "e">>

\* String.prototype.toLowerCase, on the letters the intents use
LowerChar(c) ==
    CASE c = "E" -> "e" [] c = "T" -> "t" [] c = "U" -> "u" [] c = "M" -> "m" [] c = "G" -> "g"
      [] OTHER -> c

toLowerCase(str) == [i \in 1..Len(str) |-> LowerChar(str[i])]

\* String.prototype.includes
includes(str, sub) ==
    \E i \in 0..(Len(str) - Len(sub)) : SubSeq(str, i + 1, i + Len(sub)) = sub

\* str.split(" ")[0]
FirstWord(str) ==
    IF \E i \in 1..Len(str) : str[i] = " "
    THEN SubSeq(str, 1, (CHOOSE i \in 1..Len(str) : str[i] = " " /\ \A j \in 1..(i - 1) : str[j] # " ") - 1)
    ELSE str

\* TestExpectation
ExpectedComponents ==
    { <<"summary">>, <<"safety_alert", "cta">>, <<"summary", "safety_alert", "checklist">> }

TestExpectation ==
    [ ux_mode : {"informational", "emergency"},
      risk_level : RiskLevels,
      primary_intent : {Str_Explain, Str_TriageUrgent},
      required_components : ExpectedComponents,
      forbidden_components : {Absent, [present |-> TRUE, value |-> <<"checklist", "clarifying_question">>]},
      safety_alert_level : {Absent} \cup [present : {TRUE}, value : AlertLevels \cup {Null}],
      free_text_allowed : BOOLEAN ]

TestScenario == [id : {1}, expectations : TestExpectation]

\* the response handed to evaluateTest: null, or a response of which any
\* section may be missing
EvalComponent(t) == [type |-> t, content |-> Absent]

EvalAlert(level) == [type |-> "safety_alert", content |-> [present |-> TRUE, level |-> level]]

EvalComponentLists ==
    { <<EvalComponent("summary"), EvalComponent("checklist")>>,
      <<EvalAlert("caution"), EvalComponent("cta")>>,
      <<EvalComponent("summary"), EvalAlert("informational"), EvalComponent("checklist")>> }

EvalResponse ==
    {Absent} \cup
    [ present : {TRUE},
      ux_mode : {Absent, [present |-> TRUE, mode |-> "informational"]},
      intent_detection : {Absent} \cup [present : {TRUE}, primary_intent : {Str_triage, Str_UrgentCare},
                                        risk_level : RiskLevels],
      final_ui : {Absent} \cup [present : {TRUE}, components : EvalComponentLists],
      exit_state : {Absent} \cup [present : {TRUE}, waiting_for_structured_input : BOOLEAN],
      response_content : [safety_alert : {Absent} \cup [present : {TRUE}, level : AlertLevels]] ]

\* the local values of evaluateTest
actualMode(resp) == IF resp.ux_mode.present THEN resp.ux_mode.mode ELSE Null

actualRisk(resp) == IF resp.intent_detection.present THEN resp.intent_detection.risk_level ELSE Null

\* a missing intent is the empty sequence
actualIntent(resp) == IF resp.intent_detection.present THEN resp.intent_detection.primary_intent ELSE <<>>

actualComponents(resp) == IF resp.final_ui.present THEN Types(resp.final_ui.components) ELSE <<>>

actualFreeText(resp) == ~(resp.exit_state.present /\ resp.exit_state.waiting_for_structured_input)

actualSafetyLevel(resp) ==
    IF resp.response_content.safety_alert.present
    THEN resp.response_content.safety_alert.level
    ELSE IF resp.final_ui.present /\ HasType(resp.final_ui.components, "safety_alert")
    THEN LET cs == resp.final_ui.components
             i == CHOOSE k \in 1..Len(cs) : cs[k].type = "safety_alert" /\ \A j \in 1..(k - 1) : cs[j].type # "safety_alert"
         IN  IF cs[i].content.present THEN cs[i].content.level ELSE Null
    ELSE Null

uxModeResult(exp, resp) == IF actualMode(resp) = exp.ux_mode THEN "pass" ELSE "fail"

\* mutant: medium against high is an adjacent mismatch too
riskResult_AdjacentHigh(exp, resp) ==
    IF actualRisk(resp) = exp.risk_level THEN "pass"
    ELSE IF actualRisk(resp) # Null /\ actualRisk(resp) \in {"medium", "high"} /\ exp.risk_level \in {"medium", "high"}
    THEN "partial"
    ELSE IF actualRisk(resp) # Null /\ actualRisk(resp) \in {"low", "medium"} /\ exp.risk_level \in {"low", "medium"}
    THEN "partial"
    ELSE "fail"

riskResult(exp, resp) ==
    IF actualRisk(resp) = exp.risk_level THEN "pass"
    ELSE IF actualRisk(resp) # Null /\ actualRisk(resp) \in {"low", "medium"} /\ exp.risk_level \in {"low", "medium"}
    THEN "partial"
    ELSE "fail"

\* mutant: only the actual intent is searched for the expected first word
intentMatch_OneWay(exp, resp) ==
    LET actual == actualIntent(resp)
        expected == toLowerCase(exp.primary_intent)
    IN  actual # <<>> /\ includes(toLowerCase(actual), FirstWord(expected))

intentMatch(exp, resp) ==
    LET actual == actualIntent(resp)
        expected == toLowerCase(exp.primary_intent)
    IN  \/ actual # <<>> /\ includes(toLowerCase(actual), FirstWord(expected))
        \/ includes(expected, IF actual # <<>> THEN FirstWord(toLowerCase(actual)) ELSE <<>>)

intentResult(exp, resp) == IF intentMatch(exp, resp) THEN "pass" ELSE "partial"

missingComponents(exp, resp) ==
    SelectSeq(exp.required_components, LAMBDA c : ~InSeq(c, actualComponents(resp)))

\* mutant: missing exactly half of the expected types is still partial
requiredResult_HalfIsPartial(exp, resp) ==
    LET missing == missingComponents(exp, resp) IN
    IF Len(missing) = 0 THEN "pass"
    ELSE IF 2 * Len(missing) <= Len(exp.required_components) THEN "partial"
    ELSE "fail"

requiredResult(exp, resp) ==
    LET missing == missingComponents(exp, resp) IN
    IF Len(missing) = 0 THEN "pass"
    ELSE IF 2 * Len(missing) < Len(exp.required_components) THEN "partial"
    ELSE "fail"

foundForbidden(exp, resp) ==
    IF exp.forbidden_components.present
    THEN SelectSeq(exp.forbidden_components.value, LAMBDA c : InSeq(c, actualComponents(resp)))
    ELSE <<>>

forbiddenResult(exp, resp) == IF Len(foundForbidden(exp, resp)) = 0 THEN "pass" ELSE "fail"

\* mutant: a missing alert where caution or emergency is expected is only partial
safetyResult_NoneIsPartial(exp, resp) ==
    LET actual == actualSafetyLevel(resp) IN
    IF ~exp.safety_alert_level.present THEN "pass"
    ELSE IF exp.safety_alert_level.value = Null
    THEN (IF actual = Null THEN "pass" ELSE IF actual = "informational" THEN "partial" ELSE "fail")
    ELSE IF exp.safety_alert_level.value = "informational"
    THEN (IF actual = "informational" THEN "pass" ELSE "partial")
    ELSE (IF actual = exp.safety_alert_level.value THEN "pass" ELSE "partial")

safetyResult(exp, resp) ==
    LET actual == actualSafetyLevel(resp) IN
    IF ~exp.safety_alert_level.present THEN "pass"
    ELSE IF exp.safety_alert_level.value = Null
    THEN (IF actual = Null THEN "pass" ELSE IF actual = "informational" THEN "partial" ELSE "fail")
    ELSE IF exp.safety_alert_level.value = "informational"
    THEN (IF actual = "informational" THEN "pass" ELSE "partial")
    ELSE (IF actual = exp.safety_alert_level.value THEN "pass" ELSE IF actual # Null THEN "partial" ELSE "fail")

freeTextResult(exp, resp) == IF actualFreeText(resp) = exp.free_text_allowed THEN "pass" ELSE "fail"

\* mutant: the optional verdicts are counted whether declared or not
Results_AlwaysAll(exp, resp) ==
    << uxModeResult(exp, resp), riskResult(exp, resp), intentResult(exp, resp),
       requiredResult(exp, resp), freeTextResult(exp, resp),
       forbiddenResult(exp, resp), safetyResult(exp, resp) >>

\* const results = [...]; the optional verdicts are pushed when declared
Results(exp, resp) ==
    << uxModeResult(exp, resp), riskResult(exp, resp), intentResult(exp, resp),
       requiredResult(exp, resp), freeTextResult(exp, resp) >>
    \o (IF exp.forbidden_components.present THEN <<forbiddenResult(exp, resp)>> ELSE <<>>)
    \o (IF exp.safety_alert_level.present THEN <<safetyResult(exp, resp)>> ELSE <<>>)

Overall(results) ==
    LET passCount == Cardinality({i \in 1..Len(results) : results[i] = "pass"})
        failCount == Cardinality({i \in 1..Len(results) : results[i] = "fail"})
    IN  IF failCount = 0 /\ passCount = Len(results) THEN "pass"
        ELSE IF 2 * failCount > Len(results) THEN "fail"
        ELSE "partial"

\* the result returned for a null response
NullEvaluation(scn) ==
    LET exp == scn.expectations IN
    [ testId |-> scn.id,
      overall |-> "fail",
      details |-> [ ux_mode |-> [expected |-> exp.ux_mode, actual |-> Null, result |-> "fail"],
                    risk_level |-> [expected |-> exp.risk_level, actual |-> Null, result |-> "fail"],
                    primary_intent |-> [expected |-> exp.primary_intent, actual |-> <<>>, result |-> "fail"],
                    required_components |-> [expected |-> exp.required_components, actual |-> <<>>,
                                             missing |-> exp.required_components, result |-> "fail"],
                    free_text_allowed |-> [expected |-> exp.free_text_allowed, actual |-> TRUE, result |-> "fail"] ] ]

\* the result returned for a response
Evaluation(scn, resp) ==
    LET exp == scn.expectations IN
    [ testId |-> scn.id,
      overall |-> Overall(Results(exp, resp)),
      details |->
        [ ux_mode |-> [expected |-> exp.ux_mode, actual |-> actualMode(resp), result |-> uxModeResult(exp, resp)],
          risk_level |-> [expected |-> exp.risk_level, actual |-> actualRisk(resp), result |-> riskResult(exp, resp)],
          primary_intent |-> [expected |-> exp.primary_intent, actual |-> actualIntent(resp),
                              result |-> intentResult(exp, resp)],
          required_components |-> [expected |-> exp.required_components, actual |-> actualComponents(resp),
                                   missing |-> missingComponents(exp, resp), result |-> requiredResult(exp, resp)],
          free_text_allowed |-> [expected |-> exp.free_text_allowed, actual |-> actualFreeText(resp),
                                 result |-> freeTextResult(exp, resp)] ]
        @@ (IF exp.forbidden_components.present
            THEN [forbidden_components |-> [expected |-> exp.forbidden_components.value,
                                            found |-> foundForbidden(exp, resp),
                                            result |-> forbiddenResult(exp, resp)]]
            ELSE <<>>)
        @@ (IF exp.safety_alert_level.present
            THEN [safety_alert |-> [expected |-> exp.safety_alert_level.value,
                                    actual |-> actualSafetyLevel(resp),
                                    result |-> safetyResult(exp, resp)]]
            ELSE <<>>) ]

\* a null response with the optional chaining of the other branch
NullAsEmpty ==
    [ present |-> FALSE, ux_mode |-> Absent, intent_detection |-> Absent, final_ui |-> Absent,
      exit_state |-> Absent, response_content |-> [safety_alert |-> Absent] ]

\* mutant: the null response is not told apart from an empty one
evaluateTest_NoNullBranch(scn, resp) ==
    IF ~resp.present THEN Evaluation(scn, NullAsEmpty) ELSE Evaluation(scn, resp)

evaluateTest(scn, resp) ==
    IF ~resp.present THEN NullEvaluation(scn) ELSE Evaluation(scn, resp)

InitEval ==
    /\ scenario \in TestScenario
    /\ tested = Absent
    /\ evaluation = NoEvaluation
    /\ response = IdleResponse
    /\ clarifyingCount = 0
    /\ result = NoResult
    /\ pc = "evaluate"
    /\ InitChat

Evaluate ==
    /\ pc = "evaluate"
    /\ \E resp \in EvalResponse :
          /\ tested' = resp
          /\ evaluation' = evaluateTest(scenario, resp)
    /\ pc' = "evaluated"
    /\ UNCHANGED <<scenario, response, clarifyingCount, result>>
    /\ UNCHANGED chatVars

NextEval == Evaluate

SpecEval == InitEval /\ [][NextEval]_vars

(***************************************************************************)
(* Properties of buildFinalUI (specification Spec).                        *)
(***************************************************************************)
Placed(t) == HasType(components, t)

Min(a, b) == IF a < b THEN a ELSE b

\* C1: a safety_alert of level caution or emergency is the first element of
\* final_ui.components, for every ux_mode, clarifyingCount and other content.
C1_AlertFirst ==
    (done /\ content.safety_alert.present /\ content.safety_alert.level \in {"caution", "emergency"})
        => /\ Len(components) >= 1
           /\ components[1].type = "safety_alert"
           /\ components[1].content = content.safety_alert

C1_Witness ==
    /\ done
    /\ content.safety_alert.present /\ content.safety_alert.level = "caution"
    /\ Placed("summary")
    /\ components[1].type = "safety_alert"

\* C2: in emergency mode final_ui.components holds no summary, checklist,
\* sources or clarifying_question, whatever the content and clarifyingCount.
C2_EmergencySuppression ==
    (done /\ response.ux_mode.mode = "emergency")
        => \A t \in {"summary", "checklist", "sources", "clarifying_question"} : ~Placed(t)

C2_Witness ==
    /\ done
    /\ response.ux_mode.mode = "emergency"
    /\ TruthyStr(content.summary)
    /\ content.checklist.present /\ Len(content.checklist.items) >= 2
    /\ content.sources.present /\ Len(content.sources.list) >= 1
    /\ content.clarifying_question.present
    /\ clarifyingCount = 0
    /\ ~Placed("summary") /\ ~Placed("checklist") /\ ~Placed("sources") /\ ~Placed("clarifying_question")

\* C3: in emergency mode an input cta is always placed, with the input's
\* primary text and no secondary field, also when the input carries a
\* clarifying_question and clarifyingCount < 2.
C3_EmergencyCTAPlaced ==
    (done /\ response.ux_mode.mode = "emergency" /\ content.cta.present)
        => \E i \in 1..Len(components) :
              /\ components[i].type = "cta"
              /\ components[i].content.primary = content.cta.primary
              /\ "secondary" \notin DOMAIN components[i].content

\* C4: a placed clarifying_question excludes checklist, sources and cta.
C4_ClarifyingExcludes ==
    (done /\ Placed("clarifying_question"))
        => ~Placed("checklist") /\ ~Placed("sources") /\ ~Placed("cta")

C4_Witness ==
    /\ done
    /\ Placed("clarifying_question")
    /\ content.checklist.present /\ Len(content.checklist.items) >= 2
    /\ content.sources.present /\ Len(content.sources.list) >= 1
    /\ content.cta.present
    /\ ~Placed("checklist") /\ ~Placed("sources") /\ ~Placed("cta")

\* C5: with clarifyingCount >= 2 no clarifying_question is placed and
\* guardrails.free_text_allowed is true, for every ux_mode and content.
C5_CircuitBreaker ==
    (done /\ clarifyingCount >= 2)
        => ~Placed("clarifying_question") /\ result.guardrails.free_text_allowed = TRUE

C5_Witness ==
    /\ done
    /\ clarifyingCount = 2
    /\ content.clarifying_question.present
    /\ response.ux_mode.mode = "clarification"
    /\ ~Placed("clarifying_question")
    /\ result.guardrails.free_text_allowed

\* C7: a placed checklist has 2 to 5 items, which are the first min(5, n)
\* items of the input checklist in order; fewer than 2 input items are
\* never placed.
C7_ChecklistBounds ==
    done => \A i \in 1..Len(components) :
                components[i].type = "checklist"
                    => LET out == components[i].content.items
                           inp == content.checklist.items
                       IN  /\ Len(out) >= 2 /\ Len(out) <= 5
                           /\ Len(inp) >= 2
                           /\ out = SubSeq(inp, 1, Min(5, Len(inp)))

C7_Witness ==
    /\ done
    /\ content.checklist.present /\ Len(content.checklist.items) = 7
    /\ \E i \in 1..Len(components) :
          components[i].type = "checklist" /\ components[i].content.items = <<1, 2, 3, 4, 5>>

Rank(c) ==
    CASE c.type = "safety_alert" /\ c.content.level \in {"caution", "emergency"} -> 1
      [] c.type = "summary" -> 2
      [] c.type = "safety_alert" /\ c.content.level = "informational" -> 3
      [] c.type = "clarifying_question" -> 4
      [] c.type = "checklist" -> 5
      [] c.type = "cta" -> 6
      [] c.type = "sources" -> 7
      [] OTHER -> 0

\* C9: the types of final_ui.components form a subsequence of the stacking
\* order [alert (caution/emergency), summary, alert (informational),
\* clarifying_question, checklist, cta, sources], each type at most once.
C9_StackingOrder ==
    done => \A i, j \in 1..Len(components) :
                i < j => /\ Rank(components[i]) >= 1
                         /\ Rank(components[i]) < Rank(components[j])
                         /\ components[i].type # components[j].type

C9_Witness ==
    /\ done
    /\ Types(components) = <<"safety_alert", "summary", "checklist", "cta", "sources">>

\* scenario 7 of the scenario table
EmergencyTriageInput ==
    /\ response.ux_mode.mode = "emergency"
    /\ response.intent_detection = [primary_intent |-> TriageIntent, risk_level |-> "high"]
    /\ content.safety_alert = [present |-> TRUE, level |-> "emergency"]
    /\ content.cta.present /\ content.cta.secondary.present
    /\ ~content.clarifying_question.present
    /\ ~content.summary.present /\ ~content.checklist.present /\ ~content.sources.present

\* C10: for the emergency triage input the components are exactly
\* [safety_alert, cta], the cta has no secondary, checklist and
\* clarifying_question are absent, and free_text_allowed is false.
C10_EmergencyTriageScenario ==
    (done /\ EmergencyTriageInput)
        => /\ Types(components) = <<"safety_alert", "cta">>
           /\ "secondary" \notin DOMAIN components[2].content
           /\ result.guardrails.free_text_allowed = FALSE

Occurrences(x, s) == Cardinality({i \in 1..Len(s) : s[i] = x})

IndexOf(t) == CHOOSE i \in 1..Len(components) : components[i].type = t

\* C11: outside emergency mode, with no effective clarifying question, a cta
\* with primary and secondary keeps the secondary iff the intent is not
\* "Triage (Urgent)"; under triage it is placed with primary only and
\* applied_rules says that triage blocked the secondary.
C11_SecondaryOnlyOutsideTriage ==
    (/\ done
     /\ response.ux_mode.mode # "emergency"
     /\ content.cta.present /\ content.cta.secondary.present
     /\ ~(content.clarifying_question.present /\ clarifyingCount < 2))
        => /\ Placed("cta")
           /\ LET cta == components[IndexOf("cta")].content
                  triage == response.intent_detection.primary_intent = "Triage (Urgent)"
              IN  /\ cta.primary = content.cta.primary
                  /\ ("secondary" \in DOMAIN cta) <=> ~triage
                  /\ ~triage => cta.secondary = content.cta.secondary.value
                  /\ triage => InSeq("Secondary CTA blocked: triage mode", result.guardrails.applied_rules)

C11_Witness ==
    /\ done
    /\ response.ux_mode.mode = "informational"
    /\ response.intent_detection.primary_intent = "Triage (Urgent)"
    /\ content.cta.present /\ content.cta.secondary.present
    /\ Placed("cta")
    /\ "secondary" \notin DOMAIN components[IndexOf("cta")].content
    /\ InSeq("Secondary CTA blocked: triage mode", result.guardrails.applied_rules)

\* content that a reader of the input would call present
ContentPresent(t) ==
    CASE t = "summary" -> TruthyStr(content.summary)
      [] t = "safety_alert" -> content.safety_alert.present
      [] t = "clarifying_question" -> content.clarifying_question.present
      [] t = "checklist" -> content.checklist.present /\ Len(content.checklist.items) >= 1
      [] t = "cta" -> content.cta.present
      [] t = "sources" -> content.sources.present /\ Len(content.sources.list) >= 1

ContentTypes == {"summary", "safety_alert", "clarifying_question", "checklist", "cta", "sources"}

\* the audit entries the engine writes when it leaves a component out
OmissionRules(t) ==
    CASE t = "summary" -> {"Summary blocked: emergency mode"}
      [] t = "safety_alert" -> {}
      [] t = "clarifying_question" -> {"Clarifying question suppressed (emergency mode)",
                                       "Clarifying question stripped: limit exceeded (2/2)"}
      [] t = "checklist" -> {"Checklist suppressed (emergency mode)",
                             "Checklist blocked: clarifying question present"}
      [] t = "cta" -> {"CTA blocked: clarifying question present"}
      [] t = "sources" -> {"Sources suppressed (emergency mode)",
                           "Sources blocked: clarifying question present"}

\* C12: every component type whose content is present in the input but
\* which is not placed is in guardrails.blocked_components and leaves an
\* entry in applied_rules, whatever the reason of the omission.
C12_EveryOmissionAudited ==
    done => \A t \in ContentTypes :
                (ContentPresent(t) /\ ~Placed(t))
                    => /\ InSeq(t, result.guardrails.blocked_components)
                       /\ \E r \in OmissionRules(t) : InSeq(r, result.guardrails.applied_rules)

\* C16: guardrails.allowed_components is the sequence of the types of
\* final_ui.components, same order and same length.
C16_AllowedIsPlaced ==
    done => /\ Len(result.guardrails.allowed_components) = Len(components)
            /\ \A i \in 1..Len(components) :
                  result.guardrails.allowed_components[i] = components[i].type

C16_Witness ==
    /\ done
    /\ Len(components) >= 2
    /\ Len(result.guardrails.blocked_components) >= 1
    /\ Len(result.guardrails.allowed_components) = Len(components)

\* C17: buildFinalUI returns a BuildResult, and raises no exception, on a
\* response whose optional blocks are absent or lack their sub-fields.
C17_NeverThrows == pc # "threw"

\* C18: with a clarifying_question in the input and clarifyingCount >= 2,
\* in every ux_mode, applied_rules holds the "limit exceeded (2/2)" entry
\* and blocked_components holds clarifying_question exactly once.
C18_LimitAudited ==
    (done /\ content.clarifying_question.present /\ clarifyingCount >= 2)
        => /\ InSeq("Clarifying question stripped: limit exceeded (2/2)", result.guardrails.applied_rules)
           /\ Occurrences("clarifying_question", result.guardrails.blocked_components) = 1

C18_Witness ==
    /\ done
    /\ content.clarifying_question.present
    /\ clarifyingCount = 2
    /\ response.ux_mode.mode = "clarification"
    /\ Occurrences("clarifying_question", result.guardrails.blocked_components) = 1

\* C19: when a summary is placed and the input alert is informational, the
\* summary is the first component and the alert is the one right after it.
C19_InfoAlertBelowSummary ==
    (/\ done
     /\ Placed("summary")
     /\ content.safety_alert.present /\ content.safety_alert.level = "informational")
        => /\ components[1].type = "summary"
           /\ Len(components) >= 2
           /\ components[2].type = "safety_alert"
           /\ components[2].content = content.safety_alert
           /\ Occurrences("safety_alert", Types(components)) = 1

C19_Witness ==
    /\ done
    /\ content.safety_alert.present /\ content.safety_alert.level = "informational"
    /\ Len(components) >= 3
    /\ components[1].type = "summary"
    /\ components[2].type = "safety_alert"

C27_FreeTextIffNotWaiting ==
    done =>
        /\ result.guardrails.free_text_allowed = ~result.exit_state.waiting_for_structured_input
        /\ ~result.guardrails.free_text_allowed => Placed("clarifying_question")

NoDuplicates(s) == \A i, j \in 1..Len(s) : s[i] = s[j] => i = j

\* response_content carries the field of a component type (an empty list of
\* sources or a checklist without items is still a field that is there)
FieldPresent(t) ==
    CASE t = "summary" -> TruthyStr(content.summary)
      [] t = "safety_alert" -> content.safety_alert.present
      [] t = "clarifying_question" -> content.clarifying_question.present
      [] t = "checklist" -> content.checklist.present
      [] t = "cta" -> content.cta.present
      [] t = "sources" -> content.sources.present

\* C28: blocked_components and allowed_components are disjoint,
\* blocked_components has no duplicates, and every blocked type had content
\* in response_content and is not among final_ui.components.
C28_BlockedComponentsSound ==
    done =>
        LET blocked == result.guardrails.blocked_components
            allowed == result.guardrails.allowed_components
        IN  /\ \A i \in 1..Len(blocked) : ~InSeq(blocked[i], allowed)
            /\ NoDuplicates(blocked)
            /\ \A i \in 1..Len(blocked) : FieldPresent(blocked[i]) /\ ~Placed(blocked[i])

C28_Witness ==
    /\ done
    /\ isEmergency(response)
    /\ Len(result.guardrails.blocked_components) >= 3
    /\ InSeq("clarifying_question", result.guardrails.blocked_components)
    /\ InSeq("sources", result.guardrails.blocked_components)
    /\ Len(result.guardrails.allowed_components) >= 2

(***************************************************************************)
(* Properties of evaluateTest (specification SpecEval).                    *)
(***************************************************************************)
evaluated == pc = "evaluated"

MandatoryFields == {"ux_mode", "risk_level", "primary_intent", "required_components", "free_text_allowed"}

\* C14: for a null response and every scenario, the overall verdict is fail
\* and every reported field (ux_mode, risk_level, primary_intent,
\* required_components, free_text_allowed) has result fail.
C14_NullResponseFailsEverything ==
    (evaluated /\ ~tested.present)
        => /\ evaluation.overall = "fail"
           /\ DOMAIN evaluation.details = MandatoryFields
           /\ \A f \in MandatoryFields : evaluation.details[f].result = "fail"

C14_Witness ==
    /\ evaluated
    /\ ~tested.present
    /\ scenario.expectations.forbidden_components.present
    /\ scenario.expectations.safety_alert_level.present
    /\ evaluation.overall = "fail"
    /\ evaluation.details.primary_intent.result = "fail"

\* the fields whose verdicts count for a scenario
CountedFields ==
    MandatoryFields
    \cup (IF scenario.expectations.forbidden_components.present THEN {"forbidden_components"} ELSE {})
    \cup (IF scenario.expectations.safety_alert_level.present THEN {"safety_alert"} ELSE {})

VerdictCount(v) == Cardinality({f \in CountedFields : evaluation.details[f].result = v})

\* C15: for a non-null response the overall verdict is taken over the five
\* mandatory verdicts, plus forbidden_components and safety_alert when the
\* scenario declares them (null is declared): pass iff all are pass, fail
\* iff strictly more than half are fail, partial otherwise.
C15_OverallVerdict ==
    (evaluated /\ tested.present)
        => /\ DOMAIN evaluation.details = CountedFields
           /\ evaluation.overall = "pass" <=> VerdictCount("pass") = Cardinality(CountedFields)
           /\ evaluation.overall = "fail" <=> 2 * VerdictCount("fail") > Cardinality(CountedFields)
           /\ evaluation.overall \in {"pass", "fail", "partial"}

C15_Witness ==
    /\ evaluated
    /\ tested.present
    /\ scenario.expectations.safety_alert_level.present
    /\ scenario.expectations.safety_alert_level.value = Null
    /\ ~scenario.expectations.forbidden_components.present
    /\ VerdictCount("fail") = 3
    /\ evaluation.overall = "partial"

\* the types a response carries in final_ui.components
TestedTypes == IF tested.final_ui.present THEN {c.type : c \in {tested.final_ui.components[i] : i \in 1..Len(tested.final_ui.components)}} ELSE {}

\* the expected types that the response does not carry
MissingTypes ==
    LET expected == scenario.expectations.required_components
    IN  {expected[i] : i \in 1..Len(expected)} \ TestedTypes

\* C22: required_components is pass when no expected type is missing,
\* partial when strictly fewer than half of the expected types are missing,
\* and fail otherwise (one of one or of two is fail, one of three partial).
C22_RequiredComponentsScore ==
    (evaluated /\ tested.present) =>
        LET expected == scenario.expectations.required_components
            d == evaluation.details.required_components
        IN  /\ {d.missing[i] : i \in 1..Len(d.missing)} = MissingTypes
            /\ Len(d.missing) = Cardinality(MissingTypes)
            /\ d.result = IF MissingTypes = {} THEN "pass"
                          ELSE IF 2 * Cardinality(MissingTypes) < Len(expected) THEN "partial"
                          ELSE "fail"
            /\ (Cardinality(MissingTypes) = 1 /\ Len(expected) \in {1, 2}) => d.result = "fail"
            /\ (Cardinality(MissingTypes) = 1 /\ Len(expected) = 3) => d.result = "partial"

C22_Witness ==
    /\ evaluated
    /\ tested.present
    /\ Len(scenario.expectations.required_components) = 3
    /\ MissingTypes = {"safety_alert"}
    /\ evaluation.details.required_components.result = "partial"

\* the verdict the scoring rules give an expected and an actual level
SafetyVerdicts ==
    { <<Null, Null, "pass">>, <<Null, "informational", "partial">>,
      <<Null, "caution", "fail">>, <<Null, "emergency", "fail">>,
      <<"informational", Null, "partial">>, <<"informational", "informational", "pass">>,
      <<"informational", "caution", "partial">>, <<"informational", "emergency", "partial">>,
      <<"caution", Null, "fail">>, <<"caution", "informational", "partial">>,
      <<"caution", "caution", "pass">>, <<"caution", "emergency", "partial">>,
      <<"emergency", Null, "fail">>, <<"emergency", "informational", "partial">>,
      <<"emergency", "caution", "partial">>, <<"emergency", "emergency", "pass">> }

\* the level of the response's alert: that of response_content, else that
\* of the first safety_alert component, else none
TestedLevel ==
    IF tested.response_content.safety_alert.present
    THEN tested.response_content.safety_alert.level
    ELSE IF tested.final_ui.present /\ HasType(tested.final_ui.components, "safety_alert")
    THEN LET cs == tested.final_ui.components
             alerts == {i \in 1..Len(cs) : cs[i].type = "safety_alert"}
             first == CHOOSE i \in alerts : \A j \in alerts : i <= j
         IN  cs[first].content.level
    ELSE Null

\* C23: with safety_alert_level declared, the verdict for each expected
\* level (null included) and each actual level (none included) is the one
\* of the table: expected informational never fails, expected caution or
\* emergency fails only on no alert, expected null fails on caution or
\* emergency.
C23_SafetyAlertScore ==
    (evaluated /\ tested.present /\ scenario.expectations.safety_alert_level.present) =>
        LET d == evaluation.details.safety_alert
        IN  /\ d.expected = scenario.expectations.safety_alert_level.value
            /\ d.actual = TestedLevel
            /\ <<d.expected, d.actual, d.result>> \in SafetyVerdicts

C23_Witness ==
    /\ evaluated
    /\ tested.present
    /\ scenario.expectations.safety_alert_level.present
    /\ scenario.expectations.safety_alert_level.value = "emergency"
    /\ ~tested.response_content.safety_alert.present
    /\ TestedLevel = Null
    /\ evaluation.details.safety_alert.result = "fail"

\* C24: risk_level is pass when actual equals expected, partial when they
\* differ and both are low or medium, and fail in every other case (any
\* mismatch with high, a response without a risk level).
C24_RiskLevelScore ==
    (evaluated /\ tested.present) =>
        LET expected == scenario.expectations.risk_level
            d == evaluation.details.risk_level
        IN  /\ d.expected = expected
            /\ d.actual = (IF tested.intent_detection.present THEN tested.intent_detection.risk_level ELSE Null)
            /\ (d.actual = expected) => d.result = "pass"
            /\ (d.actual # expected /\ {d.actual, expected} = {"low", "medium"}) => d.result = "partial"
            /\ (d.actual # expected /\ {d.actual, expected} # {"low", "medium"}) => d.result = "fail"

C24_Witness ==
    /\ evaluated
    /\ tested.present
    /\ tested.intent_detection.present
    /\ scenario.expectations.risk_level = "low"
    /\ tested.intent_detection.risk_level = "medium"
    /\ evaluation.details.risk_level.result = "partial"

\* t occurs in s
Occurs(t, s) == \E i \in 1..(Len(s) + 1), j \in 0..Len(s) : SubSeq(s, i, j) = t

\* p is the part of s before its first blank
IsFirstWordOf(p, s) ==
    /\ Len(p) <= Len(s)
    /\ p = SubSeq(s, 1, Len(p))
    /\ \A i \in 1..Len(p) : p[i] # " "
    /\ Len(p) < Len(s) => s[Len(p) + 1] = " "

Prefixes(s) == {SubSeq(s, 1, n) : n \in 0..Len(s)}

\* either lower-cased intent has the first word of the other within it
IntentsAgree(expected, actual) ==
    LET e == toLowerCase(expected)
        a == toLowerCase(actual)
    IN  \/ \E w \in Prefixes(e) : IsFirstWordOf(w, e) /\ Occurs(w, a)
        \/ \E w \in Prefixes(a) : IsFirstWordOf(w, a) /\ Occurs(w, e)

\* C25: for a non-null response primary_intent is never fail; it is pass
\* when either lower-cased intent contains the first word of the other, and
\* partial otherwise (a missing actual intent has the empty first word).
C25_PrimaryIntentScore ==
    (evaluated /\ tested.present) =>
        LET d == evaluation.details.primary_intent
        IN  /\ d.result \in {"pass", "partial"}
            /\ tested.intent_detection.present => d.actual = tested.intent_detection.primary_intent
            /\ d.result = "pass" <=> IntentsAgree(scenario.expectations.primary_intent, d.actual)

C25_Witness ==
    /\ evaluated
    /\ tested.present
    /\ tested.intent_detection.present
    /\ scenario.expectations.primary_intent = Str_TriageUrgent
    /\ tested.intent_detection.primary_intent = Str_UrgentCare
    /\ evaluation.details.primary_intent.result = "pass"

\* C26: a response without intent_detection scores neither primary_intent
\* nor risk_level as pass.
C26_NoIntentDetectionNoPass ==
    (evaluated /\ tested.present /\ ~tested.intent_detection.present) =>
        /\ evaluation.details.primary_intent.result # "pass"
        /\ evaluation.details.risk_level.result # "pass"

(***************************************************************************)
(* Properties of the route (specification SpecRoute).                      *)
(***************************************************************************)
answered == pc = "answered"

InClarification(msg) ==
    msg.role = "assistant" /\ msg.structured.present /\ msg.structured.ux_mode.mode = "clarification"

\* the position of the last assistant message that is not in clarification mode, or 0
LastOther(h) ==
    LET others == {i \in 1..Len(h) : h[i].role = "assistant" /\ ~InClarification(h[i])}
    IN  IF others = {} THEN 0 ELSE CHOOSE i \in others : \A j \in others : j <= i

\* the assistant messages in clarification mode after that position
TailCount(h) == Cardinality({i \in (LastOther(h) + 1)..Len(h) : InClarification(h[i])})

\* C21: the count the route uses is the number of assistant messages in
\* clarification mode after the last assistant message that is not (user
\* messages neither count nor stop the scan), and 0 when isNewConversation.
C21_CountOfTrailingClarifications ==
    answered =>
        \A req \in requests :
            clarifyingCount = IF req.isNewConversation THEN 0 ELSE TailCount(req.messages)

C21_Witness ==
    /\ answered
    /\ \E req \in requests :
          /\ ~req.isNewConversation
          /\ Len(req.messages) = 4
          /\ InClarification(req.messages[1])
          /\ req.messages[2].role = "assistant" /\ ~InClarification(req.messages[2])
          /\ InClarification(req.messages[3])
          /\ req.messages[4].role = "user"
    /\ clarifyingCount = 1

\* C29: in every answer of the route clarifying_context.count is at most
\* clarifying_context.max, and exhausted is true exactly when count has
\* reached max.
C29_ClarifyingContextBounded ==
    (answered /\ result.success) =>
        LET context == result.structured.clarifying_context
        IN  /\ context.max = 2
            /\ context.count <= context.max
            /\ context.exhausted <=> context.count >= context.max

(***************************************************************************)
(* Properties of the Chat component in flight (specification SpecAsync).   *)
(***************************************************************************)
InFlight == {r \in requests : r.stage = "fetch"}

\* C30: at most one request is in flight, isLoading is false only when no
\* request is pending, and the message list is the one the request in
\* flight was sent with (so a late answer is appended to a list that was
\* not changed or reset since).
C30_SingleRequestInFlight ==
    /\ Cardinality(InFlight) <= 1
    /\ ~isLoading => InFlight = {}
    /\ \A r \in InFlight : messages = r.newMessages

(***************************************************************************)
(* Properties of the conversation (specification SpecChat).                *)
(***************************************************************************)
ShowsQuestion(msg) ==
    msg.structured.present /\ HasType(msg.structured.final_ui.components, "clarifying_question")

AssistantMessages == SelectSeq(messages, LAMBDA m : m.role = "assistant")

\* C6: whatever the model outputs, no more than 2 consecutive assistant
\* responses of a conversation show a clarifying_question.
C6_AtMostTwoConsecutiveQuestions ==
    \A i \in 1..Len(AssistantMessages) :
        i + 2 <= Len(AssistantMessages)
            => ~(/\ ShowsQuestion(AssistantMessages[i])
                 /\ ShowsQuestion(AssistantMessages[i + 1])
                 /\ ShowsQuestion(AssistantMessages[i + 2]))

====
